---- MODULE Spec2Model ----
(***************************************************************************)
(* State-machine model of tentris-license-aggregator (src/src/lib.rs,      *)
(* src/src/main.rs): collection of crate licenses, classification of       *)
(* untagged license files, and minimization of license requirements.       *)
(*                                                                         *)
(* An Option<T> is a sequence of length at most one: None is <<>>,         *)
(* Some(x) is <<x>>.  An SPDX text is a sequence of tokens.                *)
(***************************************************************************)
EXTENDS Integers, Sequences, FiniteSets

VARIABLES
    packages,   \* the Vec<Package> the library functions work on
    gathered,   \* the KrateLicense records the gatherer yields
    pre,        \* packages as they were when the last call was made
    last        \* the last call: its policy, its Result, the warnings it logged

vars == <<packages, gathered, pre, last>>

(* ------------------------------ bounds -------------------------------- *)

\* Longest sequence of packages handed to augment_licenses / minimize_requirements.
MaxPkgs == 2

\* Most license files in one package sequence (or one gathering), all packages together.
MaxFiles == 2

\* Most crates in one gathering.
MaxKrates == 2

\* Most requirement leaves of an expression in the specification of the minimizer.
MaxLeaves == 3

(* ------------------------------ options ------------------------------- *)

None == <<>>

Some(x) == <<x>>

(* ------------------------- SPDX expression model ---------------------- *)

\* License identifiers, in lexicographic (byte) order.
IdOrder == <<"Apache-2.0", "BSD-3-Clause", "MIT">>

LicenseIds == {IdOrder[i] : i \in 1..Len(IdOrder)}

Rank(id) == CHOOSE i \in 1..Len(IdOrder) : IdOrder[i] = id

Req(id) == [k |-> "req", id |-> id, l |-> <<>>, r |-> <<>>]

Node(op, l, r) == [k |-> op, id |-> "", l |-> l, r |-> r]

ParseFail == [ok |-> FALSE, tree |-> <<>>, pos |-> 0]

RECURSIVE ParseOr(_, _)
RECURSIVE ParseOrRest(_, _, _)
RECURSIVE ParseAnd(_, _)
RECURSIVE ParseAndRest(_, _, _)
RECURSIVE ParseAtom(_, _)

\* A requirement leaf or a parenthesised expression starting at toks[pos].
ParseAtom(toks, pos) ==
    IF pos > Len(toks) THEN ParseFail
    ELSE IF toks[pos] \in LicenseIds
         THEN [ok |-> TRUE, tree |-> Req(toks[pos]), pos |-> pos + 1]
    ELSE IF toks[pos] = "("
         THEN LET inner == ParseOr(toks, pos + 1) IN
              IF inner.ok /\ inner.pos <= Len(toks) /\ toks[inner.pos] = ")"
              THEN [ok |-> TRUE, tree |-> inner.tree, pos |-> inner.pos + 1]
              ELSE ParseFail
    ELSE ParseFail

ParseAndRest(toks, left, pos) ==
    IF pos <= Len(toks) /\ toks[pos] = "AND"
    THEN LET right == ParseAtom(toks, pos + 1) IN
         IF right.ok
         THEN ParseAndRest(toks, Node("and", left, right.tree), right.pos)
         ELSE ParseFail
    ELSE [ok |-> TRUE, tree |-> left, pos |-> pos]

\* AND binds tighter than OR; both associate to the left.
ParseAnd(toks, pos) ==
    LET first == ParseAtom(toks, pos) IN
    IF first.ok THEN ParseAndRest(toks, first.tree, first.pos) ELSE ParseFail

ParseOrRest(toks, left, pos) ==
    IF pos <= Len(toks) /\ toks[pos] = "OR"
    THEN LET right == ParseAnd(toks, pos + 1) IN
         IF right.ok
         THEN ParseOrRest(toks, Node("or", left, right.tree), right.pos)
         ELSE ParseFail
    ELSE [ok |-> TRUE, tree |-> left, pos |-> pos]

ParseOr(toks, pos) ==
    LET first == ParseAnd(toks, pos) IN
    IF first.ok THEN ParseOrRest(toks, first.tree, first.pos) ELSE ParseFail

\* Expression::parse: the whole text must be one expression.
Parse(text) ==
    LET res == ParseOr(text, 1) IN
    IF res.ok /\ res.pos = Len(text) + 1
    THEN [ok |-> TRUE, tree |-> res.tree]
    ELSE [ok |-> FALSE, tree |-> <<>>]

RECURSIVE ExprToString(_)

\* Canonical serialization: an operand is parenthesised where precedence or
\* left associativity would otherwise regroup it.
ExprToString(e) ==
    LET Paren(t) == <<"(">> \o ExprToString(t) \o <<")">> IN
    IF e.k = "req" THEN <<e.id>>
    ELSE IF e.k = "and"
         THEN (IF e.l.k = "or" THEN Paren(e.l) ELSE ExprToString(e.l))
              \o <<"AND">> \o
              (IF e.r.k = "req" THEN ExprToString(e.r) ELSE Paren(e.r))
    ELSE ExprToString(e.l) \o <<"OR">> \o
         (IF e.r.k = "or" THEN Paren(e.r) ELSE ExprToString(e.r))

RECURSIVE Requirements(_)

\* The requirement leaves of an expression.
Requirements(e) ==
    IF e.k = "req" THEN {e.id} ELSE Requirements(e.l) \cup Requirements(e.r)

RECURSIVE NumLeaves(_)

\* expr.iter().filter(Req).count(): every leaf once, duplicates included.
NumLeaves(e) ==
    IF e.k = "req" THEN 1 ELSE NumLeaves(e.l) + NumLeaves(e.r)

RECURSIVE Evaluate(_, _)

\* Boolean evaluation with exactly the requirements in sat marked satisfied.
Evaluate(e, sat) ==
    IF e.k = "req" THEN e.id \in sat
    ELSE IF e.k = "and" THEN Evaluate(e.l, sat) /\ Evaluate(e.r, sat)
    ELSE Evaluate(e.l, sat) \/ Evaluate(e.r, sat)

(* --------------------------- minimization ----------------------------- *)

RECURSIVE SortedRanks(_)

\* The serialized form of a requirement set: its identifiers in ascending order.
SortedRanks(S) ==
    IF S = {} THEN <<>>
    ELSE LET m == CHOOSE x \in S : \A y \in S : Rank(x) <= Rank(y) IN
         <<Rank(m)>> \o SortedRanks(S \ {m})

RECURSIVE LexLess(_, _)

LexLess(a, b) ==
    IF a = <<>> THEN b # <<>>
    ELSE IF b = <<>> THEN FALSE
    ELSE IF a[1] # b[1] THEN a[1] < b[1]
    ELSE LexLess(Tail(a), Tail(b))

\* Whether requirement set A is chosen over B at an OR node.
Preferred(A, B) ==
    \/ Cardinality(A) < Cardinality(B)
    \/ /\ Cardinality(A) = Cardinality(B)
       /\ ~LexLess(SortedRanks(B), SortedRanks(A))

Unsatisfiable == [ok |-> FALSE, set |-> {}]

\* Faulty variant of MinimizeLeaf: the accept policy is not consulted.
LeafMutantIgnoresPolicy(id, accept) == [ok |-> TRUE, set |-> {id}]

\* A leaf: itself when its identifier is accepted, unsatisfiable otherwise.
MinimizeLeaf(id, accept) ==
    IF id \in accept THEN [ok |-> TRUE, set |-> {id}] ELSE Unsatisfiable

\* An AND node: the union of both child sets; unsatisfiable when a child is.
MinimizeAnd(a, b) ==
    IF a.ok /\ b.ok THEN [ok |-> TRUE, set |-> a.set \cup b.set] ELSE Unsatisfiable

\* Faulty variant of MinimizeOr: both branches are required when both are usable.
OrMutantUnion(a, b) ==
    IF a.ok /\ b.ok THEN [ok |-> TRUE, set |-> a.set \cup b.set]
    ELSE IF a.ok THEN a
    ELSE b

\* An OR node: the smaller usable child set, the lexicographically smaller on a tie.
MinimizeOr(a, b) ==
    IF a.ok /\ b.ok THEN (IF Preferred(a.set, b.set) THEN a ELSE b)
    ELSE IF a.ok THEN a
    ELSE b

RECURSIVE minimized_requirements(_, _)

minimized_requirements(e, accept) ==
    IF e.k = "req" THEN MinimizeLeaf(e.id, accept)
    ELSE IF e.k = "and"
         THEN MinimizeAnd(minimized_requirements(e.l, accept),
                          minimized_requirements(e.r, accept))
    ELSE MinimizeOr(minimized_requirements(e.l, accept),
                    minimized_requirements(e.r, accept))

\* LicenseReq::to_string of a requirement without exception: its identifier.
ReqToString(id) == id

(* ------------------------------ data ---------------------------------- *)

\* Reference corpus: the canonical body of each license, as its set of words.
Corpus ==
    [id \in LicenseIds |->
        IF id = "MIT" THEN {"permission", "free", "charge"}
        ELSE IF id = "Apache-2.0" THEN {"apache", "license", "terms"}
        ELSE {"redistribution", "source", "binary"}]

\* A text that is no canonical body.
GarbledText == {"free", "terms", "foo"}

FileTexts == {Corpus["MIT"], GarbledText}

\* Similarity of two texts in percent (2 * common words / all words).
Similarity(a, b) ==
    (200 * Cardinality(a \cap b)) \div (Cardinality(a) + Cardinality(b))

\* LicenseStore::analyze: the best-scoring canonical license and its score,
\* the lexicographically smallest identifier on a tie.
analyze(text) ==
    LET best == CHOOSE id \in LicenseIds :
                    \A o \in LicenseIds :
                        \/ Similarity(text, Corpus[id]) > Similarity(text, Corpus[o])
                        \/ /\ Similarity(text, Corpus[id]) = Similarity(text, Corpus[o])
                           /\ Rank(id) <= Rank(o)
    IN [name |-> best, score |-> Similarity(text, Corpus[best])]

\* struct LicenseFile { name, spdx, text }
FileKinds ==
    [name : {"LICENSE"}, spdx : {None}, text : FileTexts]
    \cup [name : {"LICENSE"}, spdx : {Some("MIT"), Some("Apache-2.0")}, text : {Corpus["MIT"]}]

\* SPDX texts of the packages handed to the library by its caller.
SpdxTexts ==
    { <<"MIT", "OR", "Apache-2.0">>,
      <<"MIT", "AND", "Apache-2.0">>,
      <<"(", "MIT">> }

SpdxOptions == {None} \cup {Some(t) : t \in SpdxTexts}

\* Name, version and url of the package at each position of a sequence.
PkgIdents ==
    << [name |-> "serde", version |-> "1.0.200", url |-> Some("https://serde.rs")],
       [name |-> "libc", version |-> "0.2.155", url |-> None],
       [name |-> "boost", version |-> "1.84.0", url |-> Some("https://boost.org")],
       [name |-> "zlib", version |-> "1.3.1", url |-> None] >>

PkgIdent(i) == PkgIdents[((i - 1) % Len(PkgIdents)) + 1]

\* struct Package { package_name, package_version, package_url, license_spdx, license_files }
Package(i, spdx, files) ==
    [package_name |-> PkgIdent(i).name,
     package_version |-> PkgIdent(i).version,
     package_url |-> PkgIdent(i).url,
     license_spdx |-> spdx,
     license_files |-> files]

FileSeqsUpTo(k) == UNION {[1..n -> FileKinds] : n \in 0..k}

RECURSIVE TotalFiles(_)

TotalFiles(ps) ==
    IF ps = <<>> THEN 0 ELSE Len(Head(ps).license_files) + TotalFiles(Tail(ps))

(* ------------------------------ results ------------------------------- *)

NoError == [kind |-> "", context |-> <<>>]

Ok == [ok |-> TRUE, error |-> NoError]

Err(e) == [ok |-> FALSE, error |-> e]

NoCall == [op |-> "none", accepted |-> {}, result |-> Ok, warnings |-> {}]

\* The caller puts a package into the vector (packages.push / extend).
push_package(spdx, files) ==
    /\ last.op = "none"
    /\ Len(packages) < MaxPkgs
    /\ TotalFiles(packages) + Len(files) <= MaxFiles
    /\ packages' = Append(packages, Package(Len(packages) + 1, spdx, files))
    /\ pre' = packages'
    /\ UNCHANGED <<gathered, last>>

(* ----------------------- minimize_requirements ------------------------ *)

\* Faulty variant of Retained: every file is kept.
RetainMutantKeepsAll(license, minimized_strs) == TRUE

\* The predicate of license_files.retain.
Retained(license, minimized_strs) ==
    \/ license.spdx = None
    \/ /\ license.spdx # None
       /\ license.spdx[1] \in minimized_strs

RECURSIVE Reverse(_)

Reverse(q) == IF q = <<>> THEN <<>> ELSE Append(Reverse(Tail(q)), Head(q))

\* Faulty variant of Retain: the kept files come out in reverse order.
RetainMutantReorders(license_files, minimized_strs) ==
    Reverse(SelectSeq(license_files, LAMBDA license : Retained(license, minimized_strs)))

\* Vec::retain: the files the predicate keeps, in their order.
Retain(license_files, minimized_strs) ==
    SelectSeq(license_files, LAMBDA license : Retained(license, minimized_strs))

\* with_context of the minimization error: name, version and license_spdx.
MinimizeContext(p) ==
    [package_name |-> p.package_name,
     package_version |-> p.package_version,
     license_spdx |-> p.license_spdx]

\* Faulty variant of OnUnsatisfiable: the error is swallowed and an empty
\* requirement set is used.
UnsatMutantPrunesAll(p) ==
    [ok |-> TRUE,
     package |-> [p EXCEPT !.license_files =
                     SelectSeq(p.license_files, LAMBDA license : license.spdx = None)],
     error |-> NoError]

\* minimized_requirements(..).with_context(..)?: the error leaves the function.
OnUnsatisfiable(p) ==
    [ok |-> FALSE, package |-> p,
     error |-> [kind |-> "UnsatisfiableLicense", context |-> <<MinimizeContext(p)>>]]

\* One iteration of the loop over packages: the package as left by the
\* iteration, or the error that leaves the function.
MinimizePackage(p, accepted) ==
    IF p.license_spdx = None THEN [ok |-> TRUE, package |-> p, error |-> NoError]
    ELSE LET license_expr == Parse(p.license_spdx[1]) IN
         IF ~license_expr.ok
         THEN [ok |-> FALSE, package |-> p,
               error |-> [kind |-> "MalformedExpression", context |-> <<>>]]
         ELSE LET min == minimized_requirements(license_expr.tree, accepted) IN
              IF ~min.ok THEN OnUnsatisfiable(p)
              ELSE LET minimized_strs == {ReqToString(req) : req \in min.set} IN
                   [ok |-> TRUE,
                    package |-> [p EXCEPT !.license_files =
                                    Retain(p.license_files, minimized_strs)],
                    error |-> NoError]

\* Faulty variant of MinimizeLoop: the loop goes on after an error and
\* reports it at the end.
RECURSIVE LoopMutantContinues(_, _, _)

LoopMutantContinues(ps, i, accepted) ==
    IF i > Len(ps) THEN [packages |-> ps, result |-> Ok]
    ELSE LET step == MinimizePackage(ps[i], accepted)
             rest == LoopMutantContinues([ps EXCEPT ![i] = step.package], i + 1, accepted)
         IN IF step.ok THEN rest
            ELSE [packages |-> rest.packages, result |-> Err(step.error)]

RECURSIVE MinimizeLoop(_, _, _)

\* for p in packages { ... ? ... }: the first error returns at once.
MinimizeLoop(ps, i, accepted) ==
    IF i > Len(ps) THEN [packages |-> ps, result |-> Ok]
    ELSE LET step == MinimizePackage(ps[i], accepted) IN
         IF step.ok
         THEN MinimizeLoop([ps EXCEPT ![i] = step.package], i + 1, accepted)
         ELSE [packages |-> ps, result |-> Err(step.error)]

minimize_requirements(accepted) ==
    LET out == MinimizeLoop(packages, 1, accepted) IN
    /\ packages' = out.packages
    /\ pre' = packages
    /\ last' = [op |-> "minimize", accepted |-> accepted,
                result |-> out.result, warnings |-> {}]
    /\ UNCHANGED gathered

(* -------------------------- augment_licenses -------------------------- *)

\* analysis.score < 0.9, in percent.
LowConfidence == 90

\* Faulty variant of AugmentFile: a file that has an spdx is classified too.
AugmentMutantOverwrites(l) == [l EXCEPT !.spdx = Some(analyze(l.text).name)]

\* The body of the loop over license files.
AugmentFile(l) ==
    IF l.spdx = None THEN [l EXCEPT !.spdx = Some(analyze(l.text).name)] ELSE l

AugmentPackage(pkg) ==
    [pkg EXCEPT !.license_files =
        [j \in 1..Len(pkg.license_files) |-> AugmentFile(pkg.license_files[j])]]

\* tracing::warn! for every analysed file scoring below 0.9.
AugmentWarnings(ps) ==
    IF \E i \in 1..Len(ps) : \E j \in 1..Len(ps[i].license_files) :
           /\ ps[i].license_files[j].spdx = None
           /\ analyze(ps[i].license_files[j].text).score < LowConfidence
    THEN {"low-confidence"} ELSE {}

augment_licenses ==
    /\ packages' = [i \in 1..Len(packages) |-> AugmentPackage(packages[i])]
    /\ pre' = packages
    /\ last' = [op |-> "augment", accepted |-> {},
                result |-> Ok, warnings |-> AugmentWarnings(packages)]
    /\ UNCHANGED gathered

(* ------------------------ collect_krate_licenses ---------------------- *)

\* Name, version, repository and homepage of the crate at each position of
\* the gathering, and of the crate of the workspace itself.
KrateIdents ==
    << [name |-> "serde", version |-> "1.0.200",
        repository |-> Some("https://github.com/serde-rs/serde"),
        homepage |-> Some("https://serde.rs")],
       [name |-> "libc", version |-> "0.2.155",
        repository |-> None, homepage |-> Some("https://libc.rs")],
       [name |-> "rand", version |-> "0.8.5",
        repository |-> None, homepage |-> None],
       [name |-> "syn", version |-> "2.0.60",
        repository |-> Some("https://github.com/dtolnay/syn"), homepage |-> None] >>

TentrisSys ==
    [name |-> "tentris-sys", version |-> "0.1.0", repository |-> None, homepage |-> None]

KrateIdent(i) == KrateIdents[((i - 1) % Len(KrateIdents)) + 1]

\* enum LicenseInfo { Expr(Expression), Unknown, Ignore }
LicenseInfos ==
    { [k |-> "Expr", expr |-> <<"MIT", "OR", "Apache-2.0">>],
      [k |-> "Unknown", expr |-> <<>>],
      [k |-> "Ignore", expr |-> <<>>] }

\* A license file found by the gatherer: the file name of its path, the
\* license it was found as, and whether read_to_string succeeds on it.
KrateFileKinds ==
    [file_name : {"LICENSE"}, license_expr : {"MIT", "Apache-2.0"}, readable : BOOLEAN]

KrateFileSeqsUpTo(k) == UNION {[1..n -> KrateFileKinds] : n \in 0..k}

RECURSIVE TotalKrateFiles(_)

TotalKrateFiles(ks) ==
    IF ks = <<>> THEN 0 ELSE Len(Head(ks).license_files) + TotalKrateFiles(Tail(ks))

\* The gatherer yields one more KrateLicense.
gather(krate, lic_info, license_files) ==
    /\ last.op = "none"
    /\ Len(gathered) < MaxKrates
    /\ TotalKrateFiles(gathered) + Len(license_files) <= MaxFiles
    /\ gathered' = Append(gathered,
           [krate |-> krate, lic_info |-> lic_info, license_files |-> license_files])
    /\ UNCHANGED <<packages, pre, last>>

\* krate.name.contains("tentris")
ContainsTentris(name) == name \in {"tentris-sys"}

\* Display of LicenseInfo: the expression's text, or the variant's name.
LicenseInfoToString(info) ==
    IF info.k = "Expr" THEN info.expr
    ELSE IF info.k = "Unknown" THEN <<"Unknown">>
    ELSE <<"Ignore">>

\* The readable license files, in order.
ReadFiles(license_files) ==
    LET readable == SelectSeq(license_files, LAMBDA l : l.readable) IN
    [j \in 1..Len(readable) |->
        [name |-> readable[j].file_name,
         spdx |-> Some(ReqToString(readable[j].license_expr)),
         text |-> Corpus[readable[j].license_expr]]]

\* repository.or(homepage)
KrateUrl(krate) ==
    IF krate.repository # None THEN krate.repository ELSE krate.homepage

CollectedPackage(kl) ==
    [package_name |-> kl.krate.name,
     package_version |-> kl.krate.version,
     package_url |-> KrateUrl(kl.krate),
     license_spdx |-> Some(LicenseInfoToString(kl.lic_info)),
     license_files |-> ReadFiles(kl.license_files)]

\* The warnings of one iteration.
KrateWarnings(kl) ==
    (IF /\ kl.lic_info.k = "Expr"
        /\ NumLeaves(Parse(kl.lic_info.expr).tree) # Len(kl.license_files)
     THEN {"count-mismatch"} ELSE {})
    \cup (IF kl.lic_info.k = "Unknown" THEN {"unknown-license"} ELSE {})
    \cup (IF \E j \in 1..Len(kl.license_files) : ~kl.license_files[j].readable
          THEN {"unreadable-file"} ELSE {})
    \cup (IF \A j \in 1..Len(kl.license_files) : ~kl.license_files[j].readable
          THEN {"no-license-files"} ELSE {})

\* Faulty variant of Bails: an unknown license ends the collection too.
UnknownMutantBails(info) == info.k \in {"Ignore", "Unknown"}

\* The arm of the match that ends the collection.
Bails(info) == info.k = "Ignore"

RECURSIVE CollectLoop(_, _, _, _)

\* for KrateLicense { .. } in g.gather(..): skip, bail or push.
CollectLoop(krates, i, acc, warnings) ==
    IF i > Len(krates) THEN [packages |-> acc, result |-> Ok, warnings |-> warnings]
    ELSE IF ContainsTentris(krates[i].krate.name)
         THEN CollectLoop(krates, i + 1, acc, warnings)
    ELSE IF Bails(krates[i].lic_info)
         THEN [packages |-> <<>>,
               result |-> Err([kind |-> "InternalInconsistency", context |-> <<>>]),
               warnings |-> warnings]
    ELSE CollectLoop(krates, i + 1, Append(acc, CollectedPackage(krates[i])),
                     warnings \cup KrateWarnings(krates[i]))

\* get_all_licenses: the packages of the gathering, or the error.
get_all_licenses ==
    LET out == CollectLoop(gathered, 1, <<>>, {}) IN
    /\ last.op = "none"
    /\ packages' = out.packages
    /\ pre' = packages
    /\ last' = [op |-> "collect", accepted |-> {},
                result |-> out.result, warnings |-> out.warnings]
    /\ UNCHANGED gathered

(* ----------------------------- the library ---------------------------- *)

\* The accept policies over the identifiers the packages mention.
Policies == SUBSET {"MIT", "Apache-2.0"}

Init ==
    /\ packages = <<>>
    /\ gathered = <<>>
    /\ pre = <<>>
    /\ last = NoCall

\* The caller assembles packages, then classifies and minimizes them.
Next ==
    \/ \E spdx \in SpdxOptions, files \in FileSeqsUpTo(MaxFiles) : push_package(spdx, files)
    \/ augment_licenses
    \/ \E accepted \in Policies : minimize_requirements(accepted)

Spec == Init /\ [][Next]_vars

\* The packages are collected from the crate graph, then minimized.
NextCollect ==
    \/ \E krate \in {KrateIdent(Len(gathered) + 1), TentrisSys},
          lic_info \in LicenseInfos,
          license_files \in KrateFileSeqsUpTo(MaxFiles) :
              gather(krate, lic_info, license_files)
    \/ get_all_licenses
    \/ /\ last.op = "collect"
       /\ last.result.ok
       /\ \E accepted \in Policies : minimize_requirements(accepted)

SpecCollect == Init /\ [][NextCollect]_vars

(* ---------------------- specification of the minimizer ---------------- *)

RECURSIVE ExprsWithLeaves(_)

\* The expressions with exactly n requirement leaves.
ExprsWithLeaves(n) ==
    IF n = 1 THEN {Req(id) : id \in LicenseIds}
    ELSE UNION { { Node(op, l, r) :
                     op \in {"and", "or"},
                     l \in ExprsWithLeaves(i),
                     r \in ExprsWithLeaves(n - i) } :
                 i \in 1..(n - 1) }

Exprs == UNION {ExprsWithLeaves(n) : n \in 1..MaxLeaves}

\* One file per license identifier.
TaggedFiles ==
    [i \in 1..Len(IdOrder) |->
        [name |-> "LICENSE", spdx |-> Some(IdOrder[i]), text |-> Corpus[IdOrder[i]]]]

InitMin ==
    /\ packages \in {<<Package(1, Some(ExprToString(e)), TaggedFiles)>> : e \in Exprs}
    /\ gathered = <<>>
    /\ pre = packages
    /\ last = NoCall

NextMin ==
    /\ last.op = "none"
    /\ \E accepted \in SUBSET LicenseIds : minimize_requirements(accepted)

SpecMin == InitMin /\ [][NextMin]_vars

(* ------------------------------ claims -------------------------------- *)

Minimized == last.op = "minimize"

Parsable(p) == p.license_spdx # None /\ Parse(p.license_spdx[1]).ok

\* Some set of accepted identifiers satisfies the package's expression.
Satisfiable(p, accept) ==
    \E S \in SUBSET accept : Evaluate(Parse(p.license_spdx[1]).tree, S)

\* The package passes the minimization step without an error.
Passes(p, accept) ==
    p.license_spdx = None \/ (Parsable(p) /\ Satisfiable(p, accept))

\* The minimized requirement set of the package's expression, as strings;
\* a package without a parsable expression has none.
MinimizedStrs(p, accept) ==
    IF Parsable(p)
    THEN {ReqToString(req) :
            req \in minimized_requirements(Parse(p.license_spdx[1]).tree, accept).set}
    ELSE {}

\* The files of p that carry no identifier or one of the minimized set.
PrunedFiles(p, accept) ==
    SelectSeq(p.license_files,
              LAMBDA f : f.spdx = None \/ f.spdx[1] \in MinimizedStrs(p, accept))

\* Whether i is the first package of pre that does not pass.
FirstFailing(i) ==
    /\ i \in 1..Len(pre)
    /\ ~Passes(pre[i], last.accepted)
    /\ \A h \in 1..(i - 1) : Passes(pre[h], last.accepted)

RECURSIVE IsSubseq(_, _)

\* a is b with some entries removed.
IsSubseq(a, b) ==
    IF a = <<>> THEN TRUE
    ELSE IF b = <<>> THEN FALSE
    ELSE IF Head(a) = Head(b) THEN IsSubseq(Tail(a), Tail(b))
    ELSE IsSubseq(a, Tail(b))

MitOrApache == <<"MIT", "OR", "Apache-2.0">>

MitAndApache == <<"MIT", "AND", "Apache-2.0">>

\* C1 as stated: after minimize_requirements returns Ok, every license file
\* still present in every package has no spdx or an spdx that is a member of
\* the minimized requirement set of that package's license_spdx.
C1_EveryPackagePruned ==
    (Minimized /\ last.result.ok) =>
        \A i \in 1..Len(packages) :
            \A j \in 1..Len(packages[i].license_files) :
                LET f == packages[i].license_files[j] IN
                f.spdx = None \/ f.spdx[1] \in MinimizedStrs(pre[i], last.accepted)

\* C1 amended: after minimize_requirements returns Ok, every license file
\* still present in every package whose license_spdx is Some has no spdx or
\* an spdx that is a member of the minimized requirement set of that
\* package's license_spdx; a package without license_spdx is not pruned.
C1_PackagesWithExpressionPruned ==
    (Minimized /\ last.result.ok) =>
        \A i \in 1..Len(packages) :
            pre[i].license_spdx # None =>
                \A j \in 1..Len(packages[i].license_files) :
                    LET f == packages[i].license_files[j] IN
                    f.spdx = None \/ f.spdx[1] \in MinimizedStrs(pre[i], last.accepted)

\* "MIT OR Apache-2.0" under {MIT}: the Apache-2.0 file is dropped, the MIT
\* file is kept.
C1_Witness ==
    /\ Minimized /\ last.result.ok /\ last.accepted = {"MIT"}
    /\ Len(pre) = 1
    /\ pre[1].license_spdx = Some(MitOrApache)
    /\ Len(pre[1].license_files) = 2
    /\ pre[1].license_files[1].spdx = Some("Apache-2.0")
    /\ pre[1].license_files[2].spdx = Some("MIT")
    /\ packages[1].license_files = <<pre[1].license_files[2]>>

\* C2: when minimization of an expression succeeds with the set R, R is a
\* subset of the accept policy and the expression evaluates to true with
\* exactly the requirements of R satisfied.
C2_Soundness ==
    Minimized =>
        \A i \in 1..Len(pre) :
            Parsable(pre[i]) =>
                LET e == Parse(pre[i].license_spdx[1]).tree
                    min == minimized_requirements(e, last.accepted)
                IN min.ok => (min.set \subseteq last.accepted /\ Evaluate(e, min.set))

C2_Witness ==
    /\ Minimized /\ last.result.ok
    /\ LET e == Parse(pre[1].license_spdx[1]).tree IN
       /\ NumLeaves(e) = 3
       /\ Cardinality(minimized_requirements(e, last.accepted).set) = 2
       /\ Cardinality(last.accepted) = 3

\* No proper subset of the minimized set satisfies the expression.
Minimal(e, accept) ==
    LET min == minimized_requirements(e, accept) IN
    min.ok => \A S \in SUBSET min.set : S # min.set => ~Evaluate(e, S)

\* No requirement occurs in two leaves of the expression.
ReadOnce(e) == NumLeaves(e) = Cardinality(Requirements(e))

C4_UnsatisfiableExactly ==
    Minimized =>
        /\ (/\ ~last.result.ok
            /\ last.result.error.kind = "UnsatisfiableLicense")
           <=> (\E i \in 1..Len(pre) :
                    /\ FirstFailing(i)
                    /\ Parsable(pre[i])
                    /\ ~Satisfiable(pre[i], last.accepted))
        /\ \A i \in 1..Len(pre) :
               (FirstFailing(i) /\ Parsable(pre[i])) =>
                   /\ ~last.result.ok
                   /\ packages[i].license_files = pre[i].license_files

\* "MIT AND Apache-2.0" under {MIT}.
C4_Witness ==
    /\ Minimized /\ ~last.result.ok
    /\ last.result.error.kind = "UnsatisfiableLicense"
    /\ pre[1].license_spdx = Some(MitAndApache)
    /\ last.accepted = {"MIT"}
    /\ packages = pre

\* What augment_licenses makes of one file: the classifier's identifier where
\* the file had none, the file as it was otherwise.
Classified(before, after) ==
    /\ after.name = before.name
    /\ after.text = before.text
    /\ after.spdx = IF before.spdx = None
                    THEN Some(analyze(before.text).name)
                    ELSE before.spdx

\* C5: augment_licenses returns Ok, sets spdx to the classifier's identifier
\* for exactly the files whose spdx is None, also when the score is below
\* 0.9, changes nothing else, and a second call changes nothing at all.
C5_ClassifiedOnce ==
    [][ last'.op = "augment" =>
          /\ last'.result.ok
          /\ Len(packages') = Len(packages)
          /\ \A i \in 1..Len(packages) :
                /\ packages'[i].package_name = packages[i].package_name
                /\ packages'[i].package_version = packages[i].package_version
                /\ packages'[i].package_url = packages[i].package_url
                /\ packages'[i].license_spdx = packages[i].license_spdx
                /\ Len(packages'[i].license_files) = Len(packages[i].license_files)
                /\ \A j \in 1..Len(packages[i].license_files) :
                      Classified(packages[i].license_files[j],
                                 packages'[i].license_files[j])
          /\ (last.op = "augment" => packages' = packages) ]_vars

\* A low-confidence file is tagged, a tagged file keeps its tag.
C5_Witness ==
    /\ last.op = "augment" /\ last.result.ok
    /\ "low-confidence" \in last.warnings
    /\ Len(pre) = 1 /\ Len(pre[1].license_files) = 2
    /\ pre[1].license_files[1].spdx = None
    /\ pre[1].license_files[1].text = GarbledText
    /\ pre[1].license_files[2].spdx = Some("Apache-2.0")
    /\ packages[1].license_files[1].spdx = Some(analyze(GarbledText).name)
    /\ packages[1].license_files[2] = pre[1].license_files[2]

\* C6: every error returned by minimize_requirements carries the name and
\* the version of the package it stopped at.
C6_ErrorsCarryPackage ==
    (Minimized /\ ~last.result.ok) =>
        \E i \in 1..Len(pre) :
            /\ FirstFailing(i)
            /\ \E c \in 1..Len(last.result.error.context) :
                  /\ last.result.error.context[c].package_name = pre[i].package_name
                  /\ last.result.error.context[c].package_version = pre[i].package_version

\* C7 as stated: when minimize_requirements fails on one package, every
\* other package that passes has its license_files pruned, before and after
\* the offending one.
C7_OthersStillPruned ==
    (Minimized /\ ~last.result.ok) =>
        \A i \in 1..Len(pre) :
            (pre[i].license_spdx # None /\ Passes(pre[i], last.accepted)) =>
                packages[i].license_files = PrunedFiles(pre[i], last.accepted)

\* C7 amended: an error on one package ends the whole call: the packages
\* before the offending one are pruned, the offending package and every
\* package after it are left as they were.
C7_StopsAtFirstError ==
    (Minimized /\ ~last.result.ok) =>
        \E k \in 1..Len(pre) :
            /\ FirstFailing(k)
            /\ Len(packages) = Len(pre)
            /\ \A i \in 1..(k - 1) :
                  pre[i].license_spdx # None =>
                      packages[i].license_files = PrunedFiles(pre[i], last.accepted)
            /\ \A i \in k..Len(pre) : packages[i] = pre[i]

\* The first package fails; the second one would lose a file and keeps it.
C7_Witness ==
    /\ Minimized /\ ~last.result.ok
    /\ Len(pre) = 2
    /\ FirstFailing(1)
    /\ pre[2].license_spdx # None /\ Passes(pre[2], last.accepted)
    /\ PrunedFiles(pre[2], last.accepted) # pre[2].license_files
    /\ packages[2] = pre[2]

Excluded(kl) == ContainsTentris(kl.krate.name)

\* The gathered crates that the exclusion rule does not match, in order.
Included == SelectSeq(gathered, LAMBDA kl : ~Excluded(kl))

\* C8: collection fails exactly when a crate that is not excluded has
\* LicenseInfo Ignore; otherwise one package per crate that is not excluded
\* is emitted, in gathering order, with exactly its readable files, whatever
\* the warnings.
C8_FailsOnlyOnIgnore ==
    last.op = "collect" =>
        /\ last.result.ok <=>
              ~\E i \in 1..Len(gathered) :
                  ~Excluded(gathered[i]) /\ gathered[i].lic_info.k = "Ignore"
        /\ last.result.ok =>
              /\ Len(packages) = Len(Included)
              /\ \A i \in 1..Len(Included) :
                    LET readable == SelectSeq(Included[i].license_files,
                                              LAMBDA l : l.readable)
                    IN /\ packages[i].package_name = Included[i].krate.name
                       /\ packages[i].package_version = Included[i].krate.version
                       /\ Len(packages[i].license_files) = Len(readable)
                       /\ \A j \in 1..Len(readable) :
                             /\ packages[i].license_files[j].name = readable[j].file_name
                             /\ packages[i].license_files[j].spdx
                                   = Some(readable[j].license_expr)

\* Every warning is logged and both crates are emitted.
C8_Witness ==
    /\ last.op = "collect" /\ last.result.ok
    /\ last.warnings = {"count-mismatch", "unknown-license",
                        "unreadable-file", "no-license-files"}
    /\ Len(gathered) = 2 /\ Len(packages) = 2
    /\ packages[1].license_files = <<>>
    /\ Len(packages[2].license_files) = 1
    /\ Len(gathered[2].license_files) = 2

UnknownText == LicenseInfoToString([k |-> "Unknown", expr |-> <<>>])

\* C9: minimize_requirements on collected packages never fails because of
\* a package collected from a crate whose LicenseInfo was Unknown.
C9_UnknownAccepted ==
    (Minimized /\ ~last.result.ok) =>
        \A i \in 1..Len(pre) :
            FirstFailing(i) => pre[i].license_spdx # Some(UnknownText)

\* C10: minimize_requirements only removes entries of license_files: the
\* packages and their other fields stay, the retained files stay as they
\* were and in their order, and a package without license_spdx is unchanged.
C10_OnlyRemovesFiles ==
    Minimized =>
        /\ Len(packages) = Len(pre)
        /\ \A i \in 1..Len(pre) :
              /\ packages[i].package_name = pre[i].package_name
              /\ packages[i].package_version = pre[i].package_version
              /\ packages[i].package_url = pre[i].package_url
              /\ packages[i].license_spdx = pre[i].license_spdx
              /\ IsSubseq(packages[i].license_files, pre[i].license_files)
              /\ pre[i].license_spdx = None => packages[i] = pre[i]

\* Two different files are retained, and a package without license_spdx
\* keeps its tagged file.
C10_Witness ==
    /\ Minimized /\ last.result.ok
    /\ Len(pre) = 2
    /\ pre[1].license_spdx = Some(MitOrApache)
    /\ Len(packages[1].license_files) = 2
    /\ packages[1].license_files[1] # packages[1].license_files[2]
    /\ pre[2].license_spdx = None
    /\ packages[2] = pre[2]

====
